---- MODULE Spec2Model ----
(***************************************************************************)
(* Model of the LEGO price assistant backend (src/backend/main.py):        *)
(* the identifier extractor, the price estimator, the catalog client, the  *)
(* chat pipeline and the HTTP routing table in front of them.              *)
(*                                                                         *)
(* Text is a sequence of one-character strings.  Money is an integer in    *)
(* units of 1/10000 dollar, so 0.10 $/piece is 1000 and an age factor is   *)
(* held in hundredths (1.0 is 100).                                        *)
(***************************************************************************)
EXTENDS Integers, Sequences, FiniteSets, TLC

VARIABLES
    REBRICKABLE_API_KEY,  \* TRUE iff the catalog credential is a non-empty string
    OPENAI_API_KEY,       \* TRUE iff the model credential is a non-empty string
    currentYear,          \* the calendar year of the wall clock
    pc,                   \* "idle" | "handling" | "done": position of the server
    request,              \* the HTTP request being handled
    upstream,             \* what the catalog and model services answered, and
                          \* the year in which the request was handled
    response,             \* the HTTP response produced
    text,                 \* extractor harness: the input text
    stage,                \* extractor harness: "input" | "extracted" | "renormalized"
    extracted,            \* extractor harness: extract_set_number(text)
    reextracted           \* extractor harness: extract_set_number(extracted)

vars == <<REBRICKABLE_API_KEY, OPENAI_API_KEY, currentYear, pc, request,
          upstream, response, text, stage, extracted, reextracted>>

serverVars == <<REBRICKABLE_API_KEY, OPENAI_API_KEY, currentYear, pc, request,
                upstream, response>>

harnessVars == <<text, stage, extracted, reextracted>>

----------------------------------------------------------------------------
(* Characters and the str methods the code uses *)

Digits == {"0", "1", "2", "3", "4", "5", "6", "7", "8", "9"}

UpperSeq == <<"A","B","C","D","E","F","G","H","I","J","K","L","M",
              "N","O","P","Q","R","S","T","U","V","W","X","Y","Z">>

LowerSeq == <<"a","b","c","d","e","f","g","h","i","j","k","l","m",
              "n","o","p","q","r","s","t","u","v","w","x","y","z">>

Upper == {UpperSeq[i] : i \in 1..Len(UpperSeq)}

Letters == Upper \cup {LowerSeq[i] : i \in 1..Len(LowerSeq)}

Whitespace == {" ", "\t", "\n"}

IsDigit(c) == c \in Digits

\* the regex class \w
IsWord(c) == c \in Digits \/ c \in Letters \/ c = "_"

\* the regex class \s
IsSpace(c) == c \in Whitespace

LowerChar(c) ==
    IF c \in Upper THEN LowerSeq[CHOOSE i \in 1..Len(UpperSeq) : UpperSeq[i] = c]
    ELSE c

\* "let x = v in F(x)" with v evaluated exactly once
With(v, F(_)) == CHOOSE r \in {F(x) : x \in {v}} : TRUE

\* str.lower()
lower(s) == [i \in 1..Len(s) |-> LowerChar(s[i])]

\* str.strip()
strip(s) ==
    IF \A i \in 1..Len(s) : IsSpace(s[i]) THEN <<>>
    ELSE SubSeq(s,
                CHOOSE a \in 1..Len(s) :
                    ~IsSpace(s[a]) /\ \A j \in 1..(a - 1) : IsSpace(s[j]),
                CHOOSE b \in 1..Len(s) :
                    ~IsSpace(s[b]) /\ \A j \in (b + 1)..Len(s) : IsSpace(s[j]))

\* needle in haystack (substring test)
contains(haystack, needle) ==
    With(haystack, LAMBDA h :
        \E i \in 0..(Len(h) - Len(needle)) :
            SubSeq(h, i + 1, i + Len(needle)) = needle)

\* where the words of s start: a non-space at the start or after a space
WordStarts(s) ==
    {i \in 1..Len(s) : ~IsSpace(s[i]) /\ (i = 1 \/ IsSpace(s[i - 1]))}

\* where the word starting at a ends
WordEnd(s, a) ==
    CHOOSE b \in a..Len(s) :
        /\ \A k \in a..b : ~IsSpace(s[k])
        /\ b = Len(s) \/ IsSpace(s[b + 1])

\* str.split(): the maximal runs of non-whitespace, in order
split(s) ==
    With(WordStarts(s), LAMBDA starts :
        [k \in 1..Cardinality(starts) |->
            With(CHOOSE i \in starts : Cardinality({j \in starts : j < i}) = k - 1,
                 LAMBDA a : SubSeq(s, a, WordEnd(s, a)))])

\* " ".join(words)
join(words) ==
    With(words, LAMBDA ws :
        LET J[k \in 0..Len(ws)] ==
                IF k = 0 THEN <<>>
                ELSE IF k = 1 THEN ws[1]
                ELSE J[k - 1] \o <<" ">> \o ws[k]
        IN  J[Len(ws)])

----------------------------------------------------------------------------
(* Regular-expression search, as re.search does it: the leftmost start,    *)
(* and at that start the first alternative in backtracking order (greedy   *)
(* quantifiers try the longest repetition first).  A match is              *)
(* <<start, m, n>>: where it starts and how often its two quantifiers      *)
(* repeat.                                                                 *)

\* the character at position i, or a non-word sentinel outside the text
Ch(t, i) == IF i \in 1..Len(t) THEN t[i] ELSE ""

\* \b between positions i and i+1
WordBoundary(t, i) == IsWord(Ch(t, i)) # IsWord(Ch(t, i + 1))

AllDigits(t, a, b) == \A k \in a..b : IsDigit(Ch(t, k))

AllSpaces(t, a, b) == \A k \in a..b : IsSpace(Ch(t, k))

NoMatch == <<>>

\* the positions of t that hold a digit, and those that hold mark in either case
DigitAt(t) == {s \in 1..Len(t) : IsDigit(t[s])}

MarkAt(t, mark) == {s \in 1..Len(t) : LowerChar(t[s]) = mark}

Least(S) == CHOOSE x \in S : \A y \in S : x <= y

\* the match re.search reports among M: leftmost start, then longest first
\* repetition, then longest second repetition
Preferred(M) ==
    CHOOSE c \in M : \A d \in M :
        \/ c[1] < d[1]
        \/ c[1] = d[1] /\ c[2] > d[2]
        \/ c[1] = d[1] /\ c[2] = d[2] /\ c[3] >= d[3]

\* r'\b(\d{4,5}-\d+)\b': m digits, a hyphen, n digits
FullAt(t, s, m, n) ==
    /\ WordBoundary(t, s - 1)
    /\ AllDigits(t, s, s + m - 1)
    /\ Ch(t, s + m) = "-"
    /\ AllDigits(t, s + m + 1, s + m + n)
    /\ WordBoundary(t, s + m + n)

SearchFull(t) ==
    With({c \in DigitAt(t) \X {4, 5} \X (1..Len(t)) : FullAt(t, c[1], c[2], c[3])},
         LAMBDA M :
            IF M = {} THEN NoMatch
            ELSE With(Preferred(M), LAMBDA c : SubSeq(t, c[1], c[1] + c[2] + c[3])))

\* r'\b(\d{4,5})\b': m digits
BareAt(t, s, m) ==
    /\ WordBoundary(t, s - 1)
    /\ AllDigits(t, s, s + m - 1)
    /\ WordBoundary(t, s + m - 1)

SearchBare(t) ==
    With({c \in DigitAt(t) \X {4, 5} \X {0} : BareAt(t, c[1], c[2])},
         LAMBDA M :
            IF M = {} THEN NoMatch
            ELSE With(Preferred(M), LAMBDA c : SubSeq(t, c[1], c[1] + c[2] - 1)))

\* r'set\s+(\d{4,5})' under re.IGNORECASE: "set", k spaces, m digits
SetAt(t, s, k, m) ==
    /\ LowerChar(Ch(t, s)) = "s"
    /\ LowerChar(Ch(t, s + 1)) = "e"
    /\ LowerChar(Ch(t, s + 2)) = "t"
    /\ AllSpaces(t, s + 3, s + 2 + k)
    /\ AllDigits(t, s + 3 + k, s + 2 + k + m)

SearchSet(t) ==
    With({c \in MarkAt(t, "s") \X (1..Len(t)) \X {4, 5} : SetAt(t, c[1], c[2], c[3])},
         LAMBDA M :
            IF M = {} THEN NoMatch
            ELSE With(Preferred(M), LAMBDA c :
                    SubSeq(t, c[1] + 3 + c[2], c[1] + 2 + c[2] + c[3])))

\* r'#(\d{4,5})': "#", m digits
HashAt(t, s, m) ==
    /\ Ch(t, s) = "#"
    /\ AllDigits(t, s + 1, s + m)

SearchHash(t) ==
    With({c \in MarkAt(t, "#") \X {4, 5} \X {0} : HashAt(t, c[1], c[2])},
         LAMBDA M :
            IF M = {} THEN NoMatch
            ELSE With(Preferred(M), LAMBDA c : SubSeq(t, c[1] + 1, c[1] + c[2])))

\* match.group(1) of re.search(pattern, query, re.IGNORECASE), by pattern name
search(pattern, t) ==
    CASE pattern = "full" -> SearchFull(t)
      [] pattern = "bare" -> SearchBare(t)
      [] pattern = "set"  -> SearchSet(t)
      [] pattern = "hash" -> SearchHash(t)

\* a plausible slip: the bare-digit rule listed ahead of the full identifier
patterns_bare_first == <<"bare", "full", "set", "hash">>

\* the ordered rule list
patterns == <<"full", "bare", "set", "hash">>

None == <<>>

\* a plausible slip: the default variant suffix is never appended
add_variant_never(set_num) == set_num

\* "if '-' not in set_num: set_num += '-1'"
add_variant(set_num) ==
    IF \E i \in 1..Len(set_num) : set_num[i] = "-" THEN set_num
    ELSE set_num \o <<"-", "1">>

\* "for pattern in patterns: ... if match: ... return set_num"
RECURSIVE first_match(_, _)
first_match(k, query) ==
    IF k > Len(patterns) THEN None
    ELSE With(search(patterns[k], query), LAMBDA g :
            IF g # NoMatch THEN add_variant(g) ELSE first_match(k + 1, query))

extract_set_number(query) == first_match(1, query)

----------------------------------------------------------------------------
(* Values: exceptions, dicts, the ChatResult *)

\* a call that returned v
Ok(v) == [exc |-> "none", status |-> 200, detail |-> "", value |-> v]

\* a call that raised exception class e (status and detail as HTTPException has)
Raise(e, st, d) == [exc |-> e, status |-> st, detail |-> d, value |-> <<>>]

SetFields == {"name", "num_parts", "year", "set_num"}

\* "key in dict" for the catalog's JSON object
has(d, k) == k \in d.keys

\* dict.get(k, default)
get(d, k, default) == IF has(d, k) THEN d[k] ELSE default

\* the text of a chat message: a template and what is formatted into it
Msg(template) ==
    [template |-> template, set_num |-> <<>>, price |-> 0, pieces |-> 0,
     year |-> 0, detail |-> "", text |-> <<>>, search_query |-> <<>>,
     suggestions |-> <<>>]

NoContext == [name |-> "", pieces |-> 0, year |-> 0]

NoSetInfo == [name |-> "", set_num |-> <<>>, pieces |-> 0, year |-> 0]

\* {"response": ...} with neither "context" nor "set_info"
Reply(msg) ==
    [response |-> msg, has_context |-> FALSE, context |-> NoContext,
     has_set_info |-> FALSE, set_info |-> NoSetInfo]

\* what a handler did on the way: the operations it called, and how many HTTP
\* requests reached the catalog service
NoCalls ==
    [extract |-> 0, getSet |-> 0, search |-> 0, model |-> 0, net |-> 0,
     search_query |-> <<>>, page_size |-> 0]

----------------------------------------------------------------------------
(* PriceEstimator: get_llm_response *)

BASE_YEAR == 2024

DEFAULT_YEAR == 2020

\* $0.10 per piece, in 1/10000 dollar
base_price_per_piece == 1000

\* $0.12 per piece, in 1/10000 dollar
fallback_price_per_piece == 1200

Max(a, b) == IF a >= b THEN a ELSE b

\* max(1.0, (2024 - year) * 0.05), in hundredths
age_factor(year) == Max(100, (BASE_YEAR - year) * 5)

\* a plausible slip: the fallback unified with the primary heuristic
fallback_estimate_as_primary(set_data) ==
    get(set_data, "num_parts", 0) * base_price_per_piece

\* pieces * 0.12
fallback_estimate(set_data) ==
    get(set_data, "num_parts", 0) * fallback_price_per_piece

\* pieces * base_price_per_piece * age_factor
heuristic_estimate(set_data) ==
    (get(set_data, "num_parts", 0) * base_price_per_piece
        * age_factor(get(set_data, "year", DEFAULT_YEAR))) \div 100

\* client.chat.completions.create(...) followed by
\* response.choices[0].message.content.strip(): the text, or the exception
completion_text(llm) ==
    CASE llm.kind = "completion" -> Ok(strip(llm.content))
      [] llm.kind = "null_content" -> Raise("AttributeError", 0, "")
      [] llm.kind = "no_choices" -> Raise("IndexError", 0, "")
      [] llm.kind = "timeout" -> Raise("APITimeoutError", 0, "")
      [] llm.kind = "error" -> Raise("APIError", 0, "")

\* the estimate and the number of model calls made for it; an empty dict is falsy
get_llm_response(context, query, set_data, llm) ==
    IF ~OPENAI_API_KEY THEN
        IF set_data.keys # {} THEN
            [response |-> [Msg("heuristic") EXCEPT
                              !.price = heuristic_estimate(set_data),
                              !.pieces = get(set_data, "num_parts", 0),
                              !.year = get(set_data, "year", DEFAULT_YEAR)],
             model |-> 0]
        ELSE [response |-> Msg("no_set_data"), model |-> 0]
    ELSE
        With(completion_text(llm), LAMBDA r :
            IF r.exc = "none" THEN
                [response |-> [Msg("llm") EXCEPT !.text = r.value], model |-> 1]
            ELSE IF set_data.keys # {} THEN
                [response |-> [Msg("fallback") EXCEPT
                                  !.price = fallback_estimate(set_data)],
                 model |-> 1]
            ELSE [response |-> Msg("unavailable"), model |-> 1])

----------------------------------------------------------------------------
(* CatalogClient: fetch_set_data, search_sets_by_name and the other helpers *)

\* the JSON object of a 200 reply of sets/{set_num}/
set_json(set_num, g) ==
    [keys |-> g.keys, name |-> g.name, num_parts |-> g.num_parts,
     year |-> g.year, set_num |-> set_num]

\* a plausible slip: the missing credential reported as "not found"
config_error_as_404 == Raise("HTTPException", 404, "LEGO set not found")

\* the missing-credential fault
config_error == Raise("HTTPException", 500, "Rebrickable API key not configured")

\* the result of fetch_set_data and whether requests.get was called
fetch_set_data(set_num, g) ==
    IF ~REBRICKABLE_API_KEY THEN [r |-> config_error, net |-> 0]
    ELSE [net |-> 1,
          r |-> CASE g.kind = "timeout" ->
                       Raise("HTTPException", 408, "API request timeout")
                  [] g.kind = "transport" ->
                       Raise("HTTPException", 500, "API request failed")
                  [] g.kind = "status" /\ g.status = 404 ->
                       Raise("HTTPException", 404, "LEGO set not found")
                  [] g.kind = "status" /\ g.status # 200 ->
                       Raise("HTTPException", g.status, "Rebrickable API error")
                  [] g.kind = "status" /\ g.status = 200 /\ g.json = "object" ->
                       Ok(set_json(set_num, g))
                  \* response.json() raises requests' JSONDecodeError, a
                  \* RequestException since requests 2.27, a plain ValueError before
                  [] g.kind = "status" /\ g.status = 200 /\ g.json = "invalid" ->
                       IF g.decode_error_is_request_exception
                       THEN Raise("HTTPException", 500, "API request failed")
                       ELSE Raise("ValueError", 0, "")]

\* the list helpers share one shape: [] without a credential, the "results" of
\* a 200 reply, [] on any other status and on any exception
results_or_empty(s) ==
    IF ~REBRICKABLE_API_KEY THEN [results |-> <<>>, net |-> 0]
    ELSE [net |-> 1,
          results |-> IF s.kind = "ok" THEN [i \in 1..s.n |-> i] ELSE <<>>]

DEFAULT_PAGE_SIZE == 10

search_sets_by_name(name, page_size, s) == results_or_empty(s)

get_set_parts(set_num, s) == results_or_empty(s)

get_themes(s) == results_or_empty(s)

get_sets_by_theme(theme_id, page_size, s) == results_or_empty(s)

----------------------------------------------------------------------------
(* IntentClassifier and QueryPipeline: process_chat_query *)

price_keywords ==
    << <<"p","r","i","c","e">>, <<"c","o","s","t">>, <<"v","a","l","u","e">>,
       <<"w","o","r","t","h">>, <<"e","x","p","e","n","s","i","v","e">>,
       <<"c","h","e","a","p">>, <<"r","e","t","a","i","l">> >>

IsKeyword(w) == \E i \in 1..Len(price_keywords) : price_keywords[i] = w

\* a plausible slip: whole-word matching instead of substring matching
is_price_query_whole_word(query_lower) ==
    With(split(query_lower), LAMBDA ws : \E i \in 1..Len(ws) : IsKeyword(ws[i]))

\* any(keyword in query_lower for keyword in price_keywords)
is_price_query(query_lower) ==
    \E i \in 1..Len(price_keywords) : contains(query_lower, price_keywords[i])

IsSearchTerm(word) == Len(word) > 3 /\ ~IsKeyword(lower(word))

\* [word for word in query.split() if len(word) > 3 and word.lower() not in price_keywords]
search_terms_of(words) == SelectSeq(words, IsSearchTerm)

\* sets[:3]
first3(sets) == SubSeq(sets, 1, IF Len(sets) < 3 THEN Len(sets) ELSE 3)

\* the branch taken once fetch_set_data has answered f (lines 321-342); a
\* missing key of set_data is a KeyError, which no handler here catches
priced(query, set_num, f, llm) ==
    IF f.r.exc = "HTTPException" THEN
        [r |-> Ok(Reply(IF f.r.status = 404
                        THEN [Msg("not_found") EXCEPT !.set_num = set_num]
                        ELSE [Msg("fetch_error") EXCEPT !.detail = f.r.detail])),
         model |-> 0]
    ELSE IF f.r.exc # "none" THEN [r |-> f.r, model |-> 0]
    ELSE With(f.r.value, LAMBDA set_data :
            IF ~(has(set_data, "name") /\ has(set_data, "num_parts")
                   /\ has(set_data, "year"))
            THEN [r |-> Raise("KeyError", 0, ""), model |-> 0]
            ELSE With([name |-> set_data.name, pieces |-> set_data.num_parts,
                       year |-> set_data.year], LAMBDA context :
                 With(get_llm_response(context, query, set_data, llm),
                      LAMBDA llm_response :
                    IF ~has(set_data, "set_num")
                    THEN [r |-> Raise("KeyError", 0, ""),
                          model |-> llm_response.model]
                    ELSE [r |-> Ok([response |-> llm_response.response,
                                    has_context |-> TRUE,
                                    context |-> context,
                                    has_set_info |-> TRUE,
                                    set_info |-> [name |-> set_data.name,
                                                  set_num |-> set_data.set_num,
                                                  pieces |-> set_data.num_parts,
                                                  year |-> set_data.year]]),
                          model |-> llm_response.model])))

\* a plausible slip: the search run even when there is nothing to search for
should_search_always(search_terms) == TRUE

\* "if search_terms:"
should_search(search_terms) == search_terms # <<>>

\* the branch taken when no identifier was extracted (lines 343-362)
suggested(query, up) ==
    With(search_terms_of(split(query)), LAMBDA search_terms :
        IF should_search(search_terms) THEN
            With(join(search_terms), LAMBDA search_query :
            With(search_sets_by_name(search_query, DEFAULT_PAGE_SIZE, up.search),
                 LAMBDA found :
                [r |-> Ok(IF found.results # <<>>
                          THEN Reply([Msg("suggestions") EXCEPT
                                         !.search_query = search_query,
                                         !.suggestions = first3(found.results)])
                          ELSE Reply(Msg("specify_set_number"))),
                 calls |-> [NoCalls EXCEPT !.extract = 1, !.search = 1,
                                           !.net = found.net,
                                           !.search_query = search_query,
                                           !.page_size = DEFAULT_PAGE_SIZE]]))
        ELSE [r |-> Ok(Reply(Msg("specify_set_number"))),
              calls |-> [NoCalls EXCEPT !.extract = 1]])

\* query is [type, s]: a str, or the JSON null a loosely parsed body can carry.
\* The result, and the calls made on the way.
process_chat_query(query, up) ==
    IF query.type # "str" THEN
        [r |-> Raise("AttributeError", 0, ""), calls |-> NoCalls]
    ELSE IF strip(query.s) = <<>> THEN
        [r |-> Ok(Reply(Msg("ask_me"))), calls |-> NoCalls]
    ELSE IF is_price_query(lower(query.s)) THEN
        With(extract_set_number(query.s), LAMBDA set_num :
            IF set_num # None THEN
                With(fetch_set_data(set_num, up.getSet), LAMBDA f :
                With(priced(query.s, set_num, f, up.llm), LAMBDA p :
                    [r |-> p.r,
                     calls |-> [NoCalls EXCEPT !.extract = 1, !.getSet = 1,
                                               !.net = f.net,
                                               !.model = p.model]]))
            ELSE suggested(query.s, up))
    ELSE [r |-> Ok(Reply(Msg("capabilities"))), calls |-> NoCalls]

----------------------------------------------------------------------------
(* The HTTP layer: the routing table and the endpoint functions *)

SEG_api == <<"a","p","i">>
SEG_sets == <<"s","e","t","s">>
SEG_search == <<"s","e","a","r","c","h">>
SEG_parts == <<"p","a","r","t","s">>
SEG_themes == <<"t","h","e","m","e","s">>
SEG_chat == <<"c","h","a","t">>
SEG_health == <<"h","e","a","l","t","h">>

Lit(s) == [kind |-> "lit", s |-> s]

\* a path parameter with the str or the int convertor
Param(convertor) == [kind |-> convertor, s |-> <<>>]

Route(method, path, endpoint) ==
    [method |-> method, path |-> path, endpoint |-> endpoint]

\* the decorators of main.py, in the order they run
routes ==
    << Route("GET", <<>>, "read_root"),
       Route("GET", <<Lit(SEG_health)>>, "health_check"),
       Route("GET", <<Lit(SEG_api), Lit(SEG_sets), Param("str")>>, "get_set"),
       Route("GET", <<Lit(SEG_api), Lit(SEG_sets), Lit(SEG_search)>>, "search_sets"),
       Route("GET", <<Lit(SEG_api), Lit(SEG_sets), Param("str"), Lit(SEG_parts)>>,
             "get_set_parts_endpoint"),
       Route("GET", <<Lit(SEG_api), Lit(SEG_themes)>>, "get_themes_endpoint"),
       Route("GET", <<Lit(SEG_api), Lit(SEG_themes), Param("int"), Lit(SEG_sets)>>,
             "get_sets_by_theme_endpoint"),
       Route("POST", <<Lit(SEG_api), Lit(SEG_chat)>>, "chat"),
       Route("POST", <<Lit(SEG_chat)>>, "chat_endpoint") >>

\* one path segment against one segment of a route's pattern
SegmentMatches(pat, seg) ==
    CASE pat.kind = "lit" -> seg = pat.s
      [] pat.kind = "str" -> seg # <<>>
      [] pat.kind = "int" -> seg # <<>> /\ AllDigits(seg, 1, Len(seg))

PathMatches(route, path) ==
    /\ Len(route.path) = Len(path)
    /\ \A i \in 1..Len(path) : SegmentMatches(route.path[i], path[i])

\* the router: the first route, in registration order, whose path and method
\* match; failing that the first whose path alone matches (405); failing that 404
Dispatch(method, path) ==
    LET full == {i \in 1..Len(routes) :
                    PathMatches(routes[i], path) /\ routes[i].method = method}
        partial == {i \in 1..Len(routes) : PathMatches(routes[i], path)}
    IN  IF full # {} THEN routes[Least(full)].endpoint
        ELSE IF partial # {} THEN "method_not_allowed"
        ELSE "not_found"

\* an HTTP response: the status, the endpoint that produced it, and its JSON
Http(status, endpoint) ==
    [status |-> status, endpoint |-> endpoint, exc |-> "none", detail |-> "",
     has_chat |-> FALSE, chat |-> Reply(Msg("")),
     query |-> <<>>, results |-> <<>>, count |-> 0, set |-> NoSetInfo,
     calls |-> NoCalls]

\* what the server makes of an endpoint function that raised: an HTTPException
\* becomes its status; anything else is an unhandled fault, a 500
Faulted(endpoint, r, calls) ==
    [Http(IF r.exc = "HTTPException" THEN r.status ELSE 500, endpoint) EXCEPT
        !.exc = r.exc, !.detail = r.detail, !.calls = calls]

ChatReply(endpoint, p) ==
    IF p.r.exc = "none"
    THEN [Http(200, endpoint) EXCEPT
             !.has_chat = TRUE, !.chat = p.r.value, !.calls = p.calls]
    ELSE Faulted(endpoint, p.r, p.calls)

\* POST /api/chat: the body is validated against ChatRequest (query: str) first
chat(body, up) ==
    IF body.json # "object" \/ ~body.has_query \/ body.query.type # "str" THEN
        [Http(422, "chat") EXCEPT !.exc = "RequestValidationError"]
    ELSE With(process_chat_query(body.query, up), LAMBDA p : ChatReply("chat", p))

\* POST /chat: the body is parsed by hand, and every exception, from the parse
\* (not JSON), from data.get (not an object) or from the pipeline, becomes a 400
chat_endpoint(body, up) ==
    IF body.json # "object" THEN
        [Http(400, "chat_endpoint") EXCEPT
            !.exc = "HTTPException", !.detail = "Invalid request"]
    ELSE With(process_chat_query(IF body.has_query THEN body.query
                                 ELSE [type |-> "str", s |-> <<>>], up),
              LAMBDA p :
                IF p.r.exc = "none" THEN ChatReply("chat_endpoint", p)
                ELSE [Http(400, "chat_endpoint") EXCEPT
                         !.exc = "HTTPException", !.detail = "Invalid request",
                         !.calls = p.calls])

\* GET /api/sets/{set_num}
get_set(set_num, up) ==
    With(fetch_set_data(set_num, up.getSet), LAMBDA f :
        IF f.r.exc # "none"
        THEN Faulted("get_set", f.r, [NoCalls EXCEPT !.getSet = 1, !.net = f.net])
        ELSE IF ~(SetFields \subseteq f.r.value.keys)
        THEN Faulted("get_set", Raise("KeyError", 0, ""),
                     [NoCalls EXCEPT !.getSet = 1, !.net = f.net])
        ELSE [Http(200, "get_set") EXCEPT
                 !.set = [name |-> f.r.value.name, set_num |-> f.r.value.set_num,
                          pieces |-> f.r.value.num_parts, year |-> f.r.value.year],
                 !.calls = [NoCalls EXCEPT !.getSet = 1, !.net = f.net]])

\* the reply of the list endpoints: the list and its length
Listing(endpoint, found, calls) ==
    [Http(200, endpoint) EXCEPT
        !.results = found.results, !.count = Len(found.results),
        !.calls = [calls EXCEPT !.net = found.net]]

\* GET /api/sets/search?query=&page_size=
search_sets(params, up) ==
    IF ~params.has_query THEN
        [Http(422, "search_sets") EXCEPT !.exc = "RequestValidationError"]
    ELSE LET page_size == IF params.has_page_size THEN params.page_size
                          ELSE DEFAULT_PAGE_SIZE
         IN  [Listing("search_sets",
                      search_sets_by_name(params.query, page_size, up.search),
                      [NoCalls EXCEPT !.search = 1,
                                      !.search_query = params.query,
                                      !.page_size = page_size])
                 EXCEPT !.query = params.query]

\* GET /api/sets/{set_num}/parts
get_set_parts_endpoint(set_num, up) ==
    Listing("get_set_parts_endpoint", get_set_parts(set_num, up.search), NoCalls)

\* GET /api/themes
get_themes_endpoint(up) ==
    Listing("get_themes_endpoint", get_themes(up.search), NoCalls)

\* GET /api/themes/{theme_id}/sets
get_sets_by_theme_endpoint(theme_id, params, up) ==
    Listing("get_sets_by_theme_endpoint",
            get_sets_by_theme(theme_id,
                              IF params.has_page_size THEN params.page_size
                              ELSE DEFAULT_PAGE_SIZE, up.search),
            NoCalls)

\* the server on one request: route it, run the endpoint function
serve(req, up) ==
    With(Dispatch(req.method, req.path), LAMBDA endpoint :
        CASE endpoint = "read_root" -> Http(200, endpoint)
          [] endpoint = "health_check" -> Http(200, endpoint)
          [] endpoint = "get_set" -> get_set(req.path[3], up)
          [] endpoint = "search_sets" -> search_sets(req.params, up)
          [] endpoint = "get_set_parts_endpoint" ->
                 get_set_parts_endpoint(req.path[3], up)
          [] endpoint = "get_themes_endpoint" -> get_themes_endpoint(up)
          [] endpoint = "get_sets_by_theme_endpoint" ->
                 get_sets_by_theme_endpoint(req.path[3], req.params, up)
          [] endpoint = "chat" -> chat(req.body, up)
          [] endpoint = "chat_endpoint" -> chat_endpoint(req.body, up)
          [] endpoint = "method_not_allowed" -> Http(405, endpoint)
          [] endpoint = "not_found" -> Http(404, endpoint))

----------------------------------------------------------------------------
(* The inputs: requests, and the answers of the catalog and model services *)

Q_empty == <<>>
Q_blank == <<" ","\t">>
Q_hello == <<"h","e","l","l","o">>
Q_number_only == <<"7","5","1","9","2">>
Q_priceless == <<"p","r","i","c","e","l","e","s","s">>
Q_price == <<"p","r","i","c","e">>
Q_price_of_75192 == <<"p","r","i","c","e"," ","o","f"," ","7","5","1","9","2">>
Q_cost_10179 == <<"H","o","w"," ","m","u","c","h"," ","d","o","e","s"," ","1","0","1","7","9","-","1"," ","C","O","S","T">>
Q_falcon_value == <<"f","a","l","c","o","n"," ","v","a","l","u","e">>
Q_what_falcon == <<"W","h","a","t"," ","i","s"," ","t","h","e"," ","F","a","l","c","o","n"," ","w","o","r","t","h">>

Queries ==
    {Q_empty, Q_blank, Q_hello, Q_number_only,
     Q_priceless, Q_price, Q_price_of_75192, Q_cost_10179,
     Q_falcon_value, Q_what_falcon}

Str(s) == [type |-> "str", s |-> s]

JsonNull == [type |-> "null", s |-> <<>>]

\* request bodies: {"query": s}, {"query": null}, {}, a JSON array, not JSON
Bodies ==
    {[json |-> "object", has_query |-> TRUE, query |-> Str(q)] : q \in Queries}
    \cup {[json |-> "object", has_query |-> TRUE, query |-> JsonNull],
          [json |-> "object", has_query |-> FALSE, query |-> JsonNull],
          [json |-> "array", has_query |-> FALSE, query |-> JsonNull],
          [json |-> "invalid", has_query |-> FALSE, query |-> JsonNull]}

NoBody == [json |-> "invalid", has_query |-> FALSE, query |-> JsonNull]

NoParams ==
    [has_query |-> FALSE, query |-> <<>>, has_page_size |-> FALSE, page_size |-> 0]

SEG_75192_1 == <<"7","5","1","9","2","-","1">>
SEG_158 == <<"1","5","8">>
SEG_abc == <<"a","b","c">>
TERM_falcon == <<"f","a","l","c","o","n">>

Paths ==
    { <<>>, <<SEG_health>>, <<SEG_abc>>,
      <<SEG_api, SEG_sets, SEG_75192_1>>, <<SEG_api, SEG_sets, SEG_search>>,
      <<SEG_api, SEG_sets, SEG_75192_1, SEG_parts>>,
      <<SEG_api, SEG_themes>>,
      <<SEG_api, SEG_themes, SEG_158, SEG_sets>>,
      <<SEG_api, SEG_themes, SEG_abc, SEG_sets>>,
      <<SEG_api, SEG_chat>>, <<SEG_chat>> }

\* the largest page_size a request asks for
MaxPageSize == 2

ParamSets ==
    {NoParams}
    \cup {[has_query |-> TRUE, query |-> TERM_falcon,
           has_page_size |-> FALSE, page_size |-> 0]}
    \cup {[has_query |-> TRUE, query |-> TERM_falcon,
           has_page_size |-> TRUE, page_size |-> n] : n \in 1..MaxPageSize}

GetRequests ==
    {[method |-> "GET", path |-> p, params |-> ps, body |-> NoBody] :
        p \in Paths, ps \in ParamSets}

PostRequests ==
    {[method |-> "POST", path |-> p, params |-> NoParams, body |-> b] :
        p \in {<<SEG_api, SEG_chat>>, <<SEG_chat>>, <<SEG_api, SEG_themes>>},
        b \in Bodies}

\* the catalog's answers to sets/{set_num}/
PieceCounts == {0, 1000, 7541}

ReleaseYears ==
    {BASE_YEAR - 24, BASE_YEAR - 21, BASE_YEAR - 20, BASE_YEAR - 19,
     BASE_YEAR, BASE_YEAR + 1}

GetSetAnswer(kind, status, json) ==
    [kind |-> kind, status |-> status, json |-> json,
     decode_error_is_request_exception |-> TRUE, keys |-> SetFields,
     name |-> "Millennium Falcon", num_parts |-> 7541, year |-> BASE_YEAR - 7]

GetSetAnswers ==
    {GetSetAnswer("timeout", 0, "none"), GetSetAnswer("transport", 0, "none"),
     GetSetAnswer("status", 404, "none"), GetSetAnswer("status", 503, "none"),
     GetSetAnswer("status", 200, "invalid"),
     [GetSetAnswer("status", 200, "invalid") EXCEPT
         !.decode_error_is_request_exception = FALSE]}
    \cup {[GetSetAnswer("status", 200, "object") EXCEPT !.keys = ks] :
             ks \in SUBSET SetFields}
    \cup {[GetSetAnswer("status", 200, "object") EXCEPT
             !.num_parts = n, !.year = y] : n \in PieceCounts, y \in ReleaseYears}

\* the largest result list the catalog returns to a search
MaxResults == 4

SearchAnswers ==
    {[kind |-> "ok", n |-> n] : n \in 0..MaxResults}
    \cup {[kind |-> k, n |-> 0] : k \in {"status", "error"}}

COMPLETION == <<" ","A","r","o","u","n","d"," ","$","8","0","0","."," ">>

LlmAnswers ==
    {[kind |-> "completion", content |-> c] : c \in {COMPLETION, <<>>, <<" ", "\n">>}}
    \cup {[kind |-> k, content |-> <<>>] :
             k \in {"null_content", "no_choices", "timeout", "error"}}

NoUpstream ==
    [getSet |-> GetSetAnswer("timeout", 0, "none"),
     search |-> [kind |-> "error", n |-> 0],
     llm |-> [kind |-> "error", content |-> <<>>],
     year |-> 0]

NoResponse == Http(0, "none")

NoRequest == [method |-> "none", path |-> <<>>, params |-> NoParams, body |-> NoBody]

----------------------------------------------------------------------------
(* The server as a state machine *)

\* how far the clock runs past the year the code was written
MaxYearsAhead == 2

Init ==
    /\ REBRICKABLE_API_KEY \in BOOLEAN
    /\ OPENAI_API_KEY \in BOOLEAN
    /\ currentYear = BASE_YEAR
    /\ pc = "idle"
    /\ request = NoRequest
    /\ upstream = NoUpstream
    /\ response = NoResponse
    /\ text = <<>>
    /\ stage = "off"
    /\ extracted = None
    /\ reextracted = None

\* a request arrives
Receive ==
    /\ pc = "idle"
    /\ \E req \in GetRequests \cup PostRequests : request' = req
    /\ pc' = "handling"
    /\ upstream' = NoUpstream
    /\ response' = NoResponse
    /\ UNCHANGED <<REBRICKABLE_API_KEY, OPENAI_API_KEY, currentYear>>
    /\ UNCHANGED harnessVars

\* which services the endpoint function asks on this request, given the
\* catalog's answer g to sets/{set_num}/ (nothing else decides it)
Asked(req, g) ==
    With(serve(req, [NoUpstream EXCEPT !.getSet = g]).calls, LAMBDA c :
        [set |-> c.getSet > 0 /\ c.net > 0,
         list |-> c.getSet = 0 /\ c.net > 0,
         llm |-> c.model > 0])

\* the request is routed and its endpoint function runs to its response; the
\* services answer as they will, and an answer nobody asked for is not recorded
Handle ==
    /\ pc = "handling"
    /\ \E a0 \in {Asked(request, NoUpstream.getSet)} :
       \E g \in (IF a0.set THEN GetSetAnswers ELSE {NoUpstream.getSet}) :
       \E a \in {Asked(request, g)} :
       \E s \in (IF a.list THEN SearchAnswers ELSE {NoUpstream.search}),
          l \in (IF a.llm THEN LlmAnswers ELSE {NoUpstream.llm}) :
            /\ upstream' = [getSet |-> g, search |-> s, llm |-> l,
                            year |-> currentYear]
            /\ response' = serve(request, [getSet |-> g, search |-> s, llm |-> l])
    /\ pc' = "done"
    /\ UNCHANGED <<REBRICKABLE_API_KEY, OPENAI_API_KEY, currentYear, request>>
    /\ UNCHANGED harnessVars

\* the calendar year turns
NewYear ==
    /\ currentYear < BASE_YEAR + MaxYearsAhead
    /\ currentYear' = currentYear + 1
    /\ UNCHANGED <<REBRICKABLE_API_KEY, OPENAI_API_KEY, pc, request, upstream,
                   response>>
    /\ UNCHANGED harnessVars

\* the response is sent; nothing of the request is kept
Finish ==
    /\ pc = "done"
    /\ pc' = "idle"
    /\ request' = NoRequest
    /\ upstream' = NoUpstream
    /\ response' = NoResponse
    /\ UNCHANGED <<REBRICKABLE_API_KEY, OPENAI_API_KEY, currentYear>>
    /\ UNCHANGED harnessVars

Next == Receive \/ Handle \/ Finish \/ NewYear

Spec == Init /\ [][Next]_vars

----------------------------------------------------------------------------
(* The extractor on its own: every text made of a few chunks is extracted, *)
(* and what was extracted is extracted again.                              *)

Chunks ==
    { <<"7","5","1","9">>, <<"2">>, <<"-">>, <<"-","2">>, <<" ">>, <<"#">>,
      <<"S","e","t">>, <<"a">> }

\* the most chunks a text is made of
MaxChunks == 4

\* the chunks cs[1..n] written one after the other
Concat(cs) ==
    LET C[k \in 0..Len(cs)] == IF k = 0 THEN <<>> ELSE C[k - 1] \o cs[k]
    IN  C[Len(cs)]

Texts == {Concat(cs) : cs \in UNION {[1..n -> Chunks] : n \in 0..MaxChunks}}

InitExtract ==
    /\ REBRICKABLE_API_KEY = FALSE
    /\ OPENAI_API_KEY = FALSE
    /\ currentYear = BASE_YEAR
    /\ pc = "off"
    /\ request = NoRequest
    /\ upstream = NoUpstream
    /\ response = NoResponse
    /\ text \in Texts
    /\ stage = "input"
    /\ extracted = None
    /\ reextracted = None

\* extract_set_number(text)
Extract ==
    /\ stage = "input"
    /\ extracted' = extract_set_number(text)
    /\ stage' = "extracted"
    /\ UNCHANGED <<text, reextracted>>
    /\ UNCHANGED serverVars

\* extract_set_number on the identifier just extracted
Renormalize ==
    /\ stage = "extracted"
    /\ extracted # None
    /\ reextracted' = extract_set_number(extracted)
    /\ stage' = "renormalized"
    /\ UNCHANGED <<text, extracted>>
    /\ UNCHANGED serverVars

NextExtract == Extract \/ Renormalize

SpecExtract == InitExtract /\ [][NextExtract]_vars

----------------------------------------------------------------------------
(* Vocabulary of the properties, stated on the text itself *)

Handled == stage \in {"extracted", "renormalized"}

\* four or five digits, a hyphen, one or more digits
IsFullIdShape(x) ==
    \E m \in {4, 5} :
        /\ Len(x) >= m + 2
        /\ \A k \in 1..m : x[k] \in Digits
        /\ x[m + 1] = "-"
        /\ \A k \in (m + 2)..Len(x) : x[k] \in Digits

\* the full identifiers written in t between word boundaries
FullIdsIn(t) ==
    {SubSeq(t, ab[1], ab[2]) : ab \in
        {c \in (1..Len(t)) \X (1..Len(t)) :
            /\ c[1] <= c[2]
            /\ IsFullIdShape(SubSeq(t, c[1], c[2]))
            /\ WordBoundary(t, c[1] - 1)
            /\ WordBoundary(t, c[2])}}

\* the runs of four or five digits written in t between word boundaries
BareRunsIn(t) ==
    {SubSeq(t, ab[1], ab[2]) : ab \in
        {c \in (1..Len(t)) \X (1..Len(t)) :
            /\ c[2] - c[1] \in {3, 4}
            /\ \A k \in c[1]..c[2] : t[k] \in Digits
            /\ WordBoundary(t, c[1] - 1)
            /\ WordBoundary(t, c[2])}}

\* the first five digits, or else the first four, that follow mark at i
DigitsAfter(t, i) ==
    IF \A k \in (i + 1)..(i + 5) : Ch(t, k) \in Digits THEN {SubSeq(t, i + 1, i + 5)}
    ELSE IF \A k \in (i + 1)..(i + 4) : Ch(t, k) \in Digits THEN {SubSeq(t, i + 1, i + 4)}
    ELSE {}

\* the digit runs that follow "set" (in any case) and whitespace
SetRunsIn(t) ==
    UNION {DigitsAfter(t, ij[2]) : ij \in
        {c \in (1..Len(t)) \X (1..Len(t)) :
            /\ c[1] + 3 <= c[2]
            /\ LowerChar(t[c[1]]) = "s"
            /\ LowerChar(t[c[1] + 1]) = "e"
            /\ LowerChar(t[c[1] + 2]) = "t"
            /\ \A k \in (c[1] + 3)..c[2] : t[k] \in Whitespace}}

\* the digit runs that follow a "#"
HashRunsIn(t) == UNION {DigitsAfter(t, i) : i \in {k \in 1..Len(t) : t[k] = "#"}}

Suffixed(R) == {r \o <<"-", "1">> : r \in R}

\* C5: the four patterns are an ordered rule list and the first that matches
\* anywhere in the text wins: a text holding a full identifier yields a full
\* identifier of the text, unchanged, whatever else the text holds; otherwise
\* a bare run, else a "set NNNN" run, else a "#NNNN" run, with "-1" appended;
\* and nothing is returned only when none of the four matches.
C5_FirstPatternWins ==
    Handled =>
        /\ FullIdsIn(text) # {} => extracted \in FullIdsIn(text)
        /\ FullIdsIn(text) = {} /\ BareRunsIn(text) # {}
              => extracted \in Suffixed(BareRunsIn(text))
        /\ FullIdsIn(text) = {} /\ BareRunsIn(text) = {} /\ SetRunsIn(text) # {}
              => extracted \in Suffixed(SetRunsIn(text))
        /\ FullIdsIn(text) = {} /\ BareRunsIn(text) = {} /\ SetRunsIn(text) = {}
              /\ HashRunsIn(text) # {}
              => extracted \in Suffixed(HashRunsIn(text))
        /\ extracted = None <=>
              /\ FullIdsIn(text) = {}
              /\ BareRunsIn(text) = {}
              /\ SetRunsIn(text) = {}
              /\ HashRunsIn(text) = {}

\* "7519 7519-2": a bare run stands before the full identifier, which wins
C5_Witness ==
    /\ stage = "extracted"
    /\ text = <<"7","5","1","9"," ","7","5","1","9","-","2">>
    /\ extracted = <<"7","5","1","9","-","2">>

\* C6: every identifier extracted has the shape NNNN(N)-N, and extracting from
\* an extracted identifier yields that identifier again.
C6_NormalizedAndIdempotent ==
    /\ Handled /\ extracted # None => IsFullIdShape(extracted)
    /\ stage = "renormalized" => reextracted = extracted

\* a text without a hyphen: the suffix was appended, and is kept the second time
C6_Witness ==
    /\ stage = "renormalized"
    /\ \A i \in 1..Len(text) : text[i] # "-"
    /\ extracted = <<"7","5","1","9","2","-","1">>
    /\ reextracted = extracted

----------------------------------------------------------------------------
(* Vocabulary of the properties of the chat operation *)

\* a chat request with a body {"query": <string>} has been answered
ChatDone ==
    /\ pc = "done"
    /\ response.endpoint \in {"chat", "chat_endpoint"}
    /\ request.body.json = "object"
    /\ request.body.has_query
    /\ request.body.query.type = "str"

TheQuery == request.body.query.s

Blank(q) == \A i \in 1..Len(q) : q[i] \in Whitespace

\* some price keyword is written in q, in any case, at some position
HasPriceKeyword(q) ==
    \E n \in 1..Len(price_keywords), i \in 1..Len(q) :
        \A k \in 1..Len(price_keywords[n]) :
            LowerChar(Ch(q, i + k - 1)) = price_keywords[n][k]

\* a price query from which an identifier is extracted has been answered
PricedDone ==
    /\ ChatDone
    /\ ~Blank(TheQuery)
    /\ HasPriceKeyword(TheQuery)
    /\ extract_set_number(TheQuery) # None

\* a price query from which no identifier is extracted has been answered
UnpricedDone ==
    /\ ChatDone
    /\ ~Blank(TheQuery)
    /\ HasPriceKeyword(TheQuery)
    /\ extract_set_number(TheQuery) = None

\* the response is a ChatResult, not a fault
InBand == response.status = 200 /\ response.has_chat /\ response.exc = "none"

\* C1: with the catalog credential configured, a price query with an
\* identifier is answered with exactly one ChatResult and never with a fault,
\* whatever the catalog replies (a 200 reply lacking fields included) and
\* whatever the model call does.
C1_PricingPathNeverFaults ==
    PricedDone /\ REBRICKABLE_API_KEY => InBand

\* C2 as claimed: without the catalog credential, a price query with an
\* identifier fails with a 500 and is not answered with a ChatResult.
C2_ConfigErrorIsRaised ==
    PricedDone /\ ~REBRICKABLE_API_KEY =>
        response.status = 500 /\ ~response.has_chat

\* C2 as amended: without the catalog credential, a price query with an
\* identifier is answered in band, with the ChatResult that reports the fetch
\* error "Rebrickable API key not configured" and carries neither context nor
\* set_info; no request reaches the catalog and the model is not called.
C2_ConfigErrorIsAnsweredInBand ==
    PricedDone /\ ~REBRICKABLE_API_KEY =>
        /\ InBand
        /\ response.chat =
              Reply([Msg("fetch_error") EXCEPT
                        !.detail = "Rebrickable API key not configured"])
        /\ response.calls.net = 0
        /\ response.calls.model = 0

C2_Witness ==
    /\ PricedDone
    /\ ~REBRICKABLE_API_KEY
    /\ TheQuery = Q_price_of_75192
    /\ response.chat.response.template = "fetch_error"

\* the heuristic estimate has been returned for the set the catalog described
HeuristicDone ==
    /\ PricedDone
    /\ ~OPENAI_API_KEY
    /\ InBand
    /\ response.chat.response.template = "heuristic"

\* pieces * 0.10 * max(1.0, age * 0.05), in 1/10000 dollar
Formula(pieces, age) == (pieces * 1000 * Max(100, age * 5)) \div 100

\* C3: without the model credential the estimate is
\* pieces * 0.10 * max(1.0, (currentYear - releaseYear) * 0.05), currentYear
\* being the year in which the query is handled.
C3_HeuristicUsesTheCurrentYear ==
    HeuristicDone =>
        response.chat.response.price =
            Formula(upstream.getSet.num_parts, upstream.year - upstream.getSet.year)

\* what the code computes instead: the age is counted from 2024
HeuristicCountsFrom2024 ==
    HeuristicDone =>
        response.chat.response.price =
            Formula(upstream.getSet.num_parts, 2024 - upstream.getSet.year)

\* the estimator ran with the model credential configured
ModelAsked ==
    /\ PricedDone
    /\ OPENAI_API_KEY
    /\ REBRICKABLE_API_KEY
    /\ upstream.getSet.kind = "status"
    /\ upstream.getSet.status = 200
    /\ upstream.getSet.json = "object"
    /\ {"name", "num_parts", "year"} \subseteq upstream.getSet.keys

Trimmed(content) ==
    IF Blank(content) THEN <<>>
    ELSE SubSeq(content,
                Least({i \in 1..Len(content) : content[i] \notin Whitespace}),
                CHOOSE b \in 1..Len(content) :
                    /\ content[b] \notin Whitespace
                    /\ \A j \in (b + 1)..Len(content) : content[j] \in Whitespace)

FallbackReply ==
    [Msg("fallback") EXCEPT !.price = upstream.getSet.num_parts * 1200]

ModelReply == [Msg("llm") EXCEPT !.text = Trimmed(upstream.llm.content)]

\* C4 as claimed: one model call; a failed call (error, timeout, malformed or
\* empty completion) yields pieces * 0.12; a successful one yields the model
\* text, trimmed.
C4_EmptyCompletionFallsBack ==
    ModelAsked =>
        /\ response.calls.model = 1
        /\ InBand =>
              response.chat.response =
                  IF upstream.llm.kind = "completion" /\ ~Blank(upstream.llm.content)
                  THEN ModelReply ELSE FallbackReply

\* C4 as amended: one model call, never retried; if it raises (error, timeout)
\* or its completion has no choices or no content, the estimate is
\* pieces * 0.12 and never the primary heuristic; otherwise the content is
\* returned trimmed, an empty or whitespace-only content as the empty text.
C4_OneCallThenFallback ==
    ModelAsked =>
        /\ response.calls.model = 1
        /\ InBand =>
              response.chat.response =
                  IF upstream.llm.kind = "completion"
                  THEN ModelReply ELSE FallbackReply

C4_Witness ==
    /\ ModelAsked
    /\ InBand
    /\ upstream.llm.kind = "timeout"
    /\ upstream.getSet.num_parts = 7541
    /\ response.chat.response.template = "fallback"
    /\ response.chat.response.price = 9049200

\* C7: a blank query gets the fixed prompt and a query without a price
\* keyword the fixed capability description, with no extraction and no
\* catalog or model call, the same under every configuration of the two
\* credentials; a query holding a keyword as a substring takes the price
\* branch (the extractor runs).
C7_BlankAndNonPriceQueries ==
    ChatDone =>
        /\ Blank(TheQuery) =>
              /\ InBand
              /\ response.chat = Reply(Msg("ask_me"))
              /\ response.calls = NoCalls
        /\ ~Blank(TheQuery) /\ ~HasPriceKeyword(TheQuery) =>
              /\ InBand
              /\ response.chat = Reply(Msg("capabilities"))
              /\ response.calls = NoCalls
        /\ HasPriceKeyword(TheQuery) => response.calls.extract = 1

\* "75192" names a set but asks no price: no credential, no call, same answer
C7_Witness ==
    /\ ChatDone
    /\ TheQuery = Q_number_only
    /\ ~REBRICKABLE_API_KEY
    /\ ~OPENAI_API_KEY
    /\ response.chat = Reply(Msg("capabilities"))
    /\ response.calls = NoCalls

\* the words of the query longer than 3 characters and not price keywords
TermsOf(q) == search_terms_of(split(q))

\* the result list searchSets hands to the pipeline: the catalog's on a 200
\* reply, empty on any failure
SearchResults ==
    IF REBRICKABLE_API_KEY /\ upstream.search.kind = "ok"
    THEN [i \in 1..upstream.search.n |-> i] ELSE <<>>

\* what the pipeline answers given the search terms and the result list
SuggestionsOrPrompt(terms) ==
    IF terms # <<>> /\ SearchResults # <<>>
    THEN Reply([Msg("suggestions") EXCEPT
                   !.search_query = join(terms),
                   !.suggestions =
                       [i \in 1..(IF Len(SearchResults) < 3
                                  THEN Len(SearchResults) ELSE 3) |-> SearchResults[i]]])
    ELSE Reply(Msg("specify_set_number"))

C9_SearchRouteReachesSearch ==
    /\ pc = "done"
    /\ request.method = "GET"
    /\ request.path = <<SEG_api, SEG_sets, SEG_search>>
    /\ request.params.has_query
    => /\ response.endpoint = "search_sets"
       /\ response.status = 200
       /\ response.query = request.params.query
       /\ response.calls.search = 1
       /\ response.calls.search_query = request.params.query
       /\ response.count = Len(response.results)

\* C10: POST /chat and POST /api/chat produce the same outcome for every
\* body and every behaviour of the services: the same status and the same
\* ChatResult.
C10_BothExposuresAgree ==
    /\ pc = "done"
    /\ response.endpoint \in {"chat", "chat_endpoint"}
    => /\ chat(request.body, upstream).status
             = chat_endpoint(request.body, upstream).status
       /\ chat(request.body, upstream).has_chat
             = chat_endpoint(request.body, upstream).has_chat
       /\ chat(request.body, upstream).chat
             = chat_endpoint(request.body, upstream).chat

====
